---------------------------- MODULE Spec2Model ----------------------------
(***************************************************************************)
(* Model of the PDF edit session of src/app.py: the two artifacts a        *)
(* session keeps under UPLOAD_DIR (<fid>.pdf and <fid>.json) and the Flask *)
(* handlers upload, edit, rotate, delete, move and download that read and  *)
(* write them.                                                             *)
(*                                                                         *)
(* A page of a stored PDF is a record [id, rot]: id names the opaque page  *)
(* content (the position the page had in the uploaded file), rot is the    *)
(* page's /Rotate value as PyMuPDF reports it (page.rotation).  A file is  *)
(* a record with an exists flag, so that os.path.exists and a failing      *)
(* fitz.open can be told from an empty page list.                          *)
(***************************************************************************)
EXTENDS Integers, Sequences, FiniteSets, TLC

VARIABLES
    pdf,        \* pdf[fid]:  the artifact _pdf_path(fid)
    meta,       \* meta[fid]: the artifact _meta_path(fid)
    uploaded,   \* uploaded[fid]: page count of the file when it was uploaded
    last,       \* the last request served and the response it got
    tmp,        \* tmp[fid]: the artifact _pdf_path(fid) + ".tmp"
    proc        \* proc[p]: the request worker p is serving, step by step

vars == <<pdf, meta, uploaded, last, tmp, proc>>

---------------------------------------------------------------------------
(* Bounds *)

\* largest number of pages of an uploaded file
MaxPages == 3

---------------------------------------------------------------------------
(* Values *)

\* the session ids uuid4().hex[:12] can produce (two of them)
AllFids == {"f1", "f2"}

\* the session id the one-request-at-a-time specification works on
SeqFids == {"f1"}

\* page.rotation is always normalised by PyMuPDF to one of these
Rotations == {0, 90, 180, 270}

\* a path at which os.path.exists is false
NoPdf == [exists |-> FALSE, pages |-> <<>>]

NoMeta == [exists |-> FALSE, filename |-> "", pages |-> <<>>]

\* page indices a URL can carry: <int:page_idx> matches only non-negative
\* integers; one value past the largest valid index is enough to be out of
\* range for every document
PageIdxInputs == 0 .. MaxPages

\* the form field "to" of a move request: missing, an integer literal
\* (possibly negative), or text int() cannot parse
NoTo == [kind |-> "none", val |-> 0]

BadTo == [kind |-> "bad", val |-> 0]

IntTo(v) == [kind |-> "int", val |-> v]

\* the move requests tried: every pair of indices a document of MaxPages
\* pages has, and requests whose from_idx or to is past the end, negative,
\* missing or not a number
MoveInputs ==
    {<<f, IntTo(t)>> : f \in 0 .. MaxPages - 1, t \in 0 .. MaxPages - 1}
    \cup {<<MaxPages, IntTo(0)>>, <<0, IntTo(MaxPages)>>,
          <<MaxPages, IntTo(MaxPages)>>, <<0, IntTo(-1)>>,
          <<0, NoTo>>, <<0, BadTo>>}

\* the uploaded file's name, split at its last dot
UploadNames == {[stem |-> "doc", ext |-> "pdf"],
                [stem |-> "doc", ext |-> "PDF"],
                [stem |-> "doc", ext |-> "txt"]}

\* the PDFs a caller can upload: n pages, each with a rotation
UploadDocs == UNION {[1 .. n -> Rotations] : n \in 0 .. MaxPages}

---------------------------------------------------------------------------
(* Python list operations, 0-based indices *)

Min(a, b) == IF a < b THEN a ELSE b

Max(a, b) == IF a > b THEN a ELSE b

\* list(range(1, n + 1))
RangeFrom1(n) == [i \in 1 .. n |-> i]

\* list(range(n))
Range0(n) == [i \in 1 .. n |-> i - 1]

\* list.pop(i) raises IndexError unless -len <= i < len
PopOk(s, i) == -Len(s) <= i /\ i < Len(s)

\* the position list.pop(i) and list[i] address; a negative i counts from the end
PyIndex(s, i) == IF i < 0 THEN Len(s) + i ELSE i

\* s[i]
PyAt(s, i) == s[PyIndex(s, i) + 1]

\* the list after s.pop(i)
PyPop(s, i) ==
    LET k == PyIndex(s, i)
    IN  SubSeq(s, 1, k) \o SubSeq(s, k + 2, Len(s))

\* a slip: the entry is put after position i instead of before it
PyInsert_after(s, i, x) ==
    LET k == IF i < 0 THEN Max(0, Len(s) + i + 1) ELSE Min(i + 1, Len(s))
    IN  SubSeq(s, 1, k) \o <<x>> \o SubSeq(s, k + 1, Len(s))

\* the list after s.insert(i, x): i is clamped into 0 .. len
PyInsert(s, i, x) ==
    LET k == IF i < 0 THEN Max(0, Len(s) + i) ELSE Min(i, Len(s))
    IN  SubSeq(s, 1, k) \o <<x>> \o SubSeq(s, k + 1, Len(s))

---------------------------------------------------------------------------
(* The session store: _pdf_path, _meta_path, _load_meta, _save_meta *)

\* what a handler finds at the two paths of fid
Snapshot(fid) == [pdf |-> pdf[fid], meta |-> meta[fid]]

\* _load_meta(fid, n) reading the artifact m: the stored record, or a
\* default built from n when the path does not exist
LoadMeta(m, n) ==
    IF m.exists
    THEN [filename |-> m.filename, pages |-> m.pages]
    ELSE [filename |-> "unknown.pdf", pages |-> RangeFrom1(n)]

\* the artifact _save_meta(fid, m) leaves: json.dump of a dict of a string
\* and a list of ints, which json.load reads back unchanged
SavedMeta(m) == [exists |-> TRUE, filename |-> m.filename, pages |-> m.pages]

\* the artifact doc.save leaves (incremental or full): the pages in order,
\* each with its rotation
SavedPdf(doc) == [exists |-> TRUE, pages |-> doc]

\* _get_page_info(doc, original_pages): original_pages[i] raises IndexError
\* when the list is shorter than the document
PageInfoOk(doc, original_pages) == Len(original_pages) >= Len(doc)

PageInfo(doc, original_pages) ==
    [i \in 1 .. Len(doc) |->
        [label |-> <<"p.", original_pages[i]>>, rotation |-> doc[i].rot]]

---------------------------------------------------------------------------
(* The edits, as the handlers compute them *)

\* the file a fresh upload stores: page i of the upload has content i
UploadedPages(rots) == [i \in 1 .. Len(rots) |-> [id |-> i, rot |-> rots[i]]]

\* upload's test of the file name: f.filename.lower().endswith(".pdf")
IsPdfName(name) == name.ext \in {"pdf", "PDF"}

\* rotate: 0 <= page_idx < len(doc)
RotateGuard(n, page_idx) == 0 <= page_idx /\ page_idx < n

\* a slip: the page is turned counter-clockwise
NextRotation_ccw(r) == (r + 270) % 360

\* a slip: the sum is not reduced modulo 360
NextRotation_nomod(r) == r + 90

\* rotate: (page.rotation + 90) % 360
NextRotation(r) == (r + 90) % 360

\* rotate: page.set_rotation(...) on doc[page_idx]
RotateDoc(doc, page_idx) ==
    [doc EXCEPT ![page_idx + 1].rot = NextRotation(doc[page_idx + 1].rot)]

\* a slip: the last page may be deleted too
DeleteGuard_nomin(n, page_idx) == 0 <= page_idx /\ page_idx < n

\* delete: 0 <= page_idx < n and n > 1
DeleteGuard(n, page_idx) == 0 <= page_idx /\ page_idx < n /\ n > 1

\* a slip: the pages move up but each position keeps the rotation it had
DeletePage_rotstay(doc, page_idx) ==
    [i \in 1 .. Len(doc) - 1 |->
        [id |-> PyPop(doc, page_idx)[i].id, rot |-> doc[i].rot]]

\* a slip: the index is taken as a 1-based page number
DeletePage_onebased(doc, page_idx) ==
    IF page_idx = 0 THEN doc ELSE PyPop(doc, page_idx - 1)

\* delete: doc.delete_page(page_idx)
DeletePage(doc, page_idx) == PyPop(doc, page_idx)

\* a slip: pop() without its index drops the last entry
DeleteLedger_last(pages, page_idx) == PyPop(pages, Len(pages) - 1)

\* delete: meta["pages"].pop(page_idx)
DeleteLedger(pages, page_idx) == PyPop(pages, page_idx)

\* a slip: the lower bound of to_idx is not tested
MoveGuard_nolow(n, from_idx, to_idx) ==
    /\ 0 <= from_idx /\ from_idx < n
    /\ to_idx < n
    /\ from_idx # to_idx

\* move: 0 <= from_idx < n and 0 <= to_idx < n and from_idx != to_idx
MoveGuard(n, from_idx, to_idx) ==
    /\ 0 <= from_idx /\ from_idx < n
    /\ 0 <= to_idx /\ to_idx < n
    /\ from_idx # to_idx

\* a slip: the target is counted in the sequence before the removal
MoveOrder_adjust(n, from_idx, to_idx) ==
    PyInsert(PyPop(Range0(n), from_idx),
             IF to_idx > from_idx THEN to_idx - 1 ELSE to_idx,
             PyAt(Range0(n), from_idx))

\* move: order = list(range(n)); order.insert(to_idx, order.pop(from_idx))
MoveOrder(n, from_idx, to_idx) ==
    PyInsert(PyPop(Range0(n), from_idx), to_idx, PyAt(Range0(n), from_idx))

\* a slip: order is read as the new position of each old page
Select_inverse(doc, order) ==
    [k \in 1 .. Len(order) |->
        doc[CHOOSE p \in 1 .. Len(order) : order[p] = k - 1]]

\* move: doc.select(order)
Select(doc, order) == [k \in 1 .. Len(order) |-> doc[order[k] + 1]]

\* a slip: the entry is copied over the target instead of moved
MoveLedger_assign(pages, from_idx, to_idx) ==
    [pages EXCEPT ![to_idx + 1] = pages[from_idx + 1]]

\* move: meta["pages"].insert(to_idx, meta["pages"].pop(from_idx))
MoveLedger(pages, from_idx, to_idx) ==
    PyInsert(PyPop(pages, from_idx), to_idx, PyAt(pages, from_idx))

\* move: int(request.form.get("to", from_idx)) raises ValueError on text
ToOk(to) == to.kind # "bad"

\* move: to_idx = int(request.form.get("to", from_idx))
ToIdx(to, from_idx) == IF to.kind = "int" THEN to.val ELSE from_idx

---------------------------------------------------------------------------
(* The handlers as functions of the two artifacts s = [pdf, meta] they     *)
(* find: the artifacts they leave and the response.  fitz.open raises on   *)
(* a missing file, which Flask answers with 500 ("error").                 *)

Outcome(p, m, status) == [pdf |-> p, meta |-> m, status |-> status]

\* rotate(fid, page_idx)
RotateHandler(s, page_idx) ==
    IF ~s.pdf.exists
    THEN Outcome(s.pdf, s.meta, "error")
    ELSE LET doc == s.pdf.pages
         IN  IF RotateGuard(Len(doc), page_idx)
             THEN Outcome(SavedPdf(RotateDoc(doc, page_idx)), s.meta,
                          "redirect")
             ELSE Outcome(s.pdf, s.meta, "redirect")

\* delete(fid, page_idx): the binary is rewritten through the temporary
\* file and renamed into place, then the ledger is loaded, popped and
\* saved; a pop that raises leaves the ledger as it was
DeleteHandler(s, page_idx) ==
    IF ~s.pdf.exists
    THEN Outcome(s.pdf, s.meta, "error")
    ELSE LET doc == s.pdf.pages
             n == Len(doc)
             m == LoadMeta(s.meta, n)
         IN  IF DeleteGuard(n, page_idx)
             THEN IF PopOk(m.pages, page_idx)
                  THEN Outcome(SavedPdf(DeletePage(doc, page_idx)),
                               SavedMeta([m EXCEPT !.pages =
                                   DeleteLedger(m.pages, page_idx)]),
                               "redirect")
                  ELSE Outcome(SavedPdf(DeletePage(doc, page_idx)), s.meta,
                               "error")
             ELSE Outcome(s.pdf, s.meta, "redirect")

\* move(fid, from_idx) with form field to, parsed before the file is opened
MoveHandler(s, from_idx, to) ==
    IF ~ToOk(to) \/ ~s.pdf.exists
    THEN Outcome(s.pdf, s.meta, "error")
    ELSE LET doc == s.pdf.pages
             n == Len(doc)
             to_idx == ToIdx(to, from_idx)
             m == LoadMeta(s.meta, n)
         IN  IF MoveGuard(n, from_idx, to_idx)
             THEN IF PopOk(m.pages, from_idx)
                  THEN Outcome(SavedPdf(Select(doc,
                                   MoveOrder(n, from_idx, to_idx))),
                               SavedMeta([m EXCEPT !.pages =
                                   MoveLedger(m.pages, from_idx, to_idx)]),
                               "redirect")
                  ELSE Outcome(SavedPdf(Select(doc,
                                   MoveOrder(n, from_idx, to_idx))),
                               s.meta, "error")
             ELSE Outcome(s.pdf, s.meta, "redirect")

---------------------------------------------------------------------------
(* Workers.  The development server of app.run serves each request on a    *)
(* thread of its own, so a handler can be between two of its file          *)
(* operations while another handler runs.                                  *)

\* the worker threads
Procs == {"p1", "p2"}

\* the loaded metadata of a worker that has none
NoLedger == [filename |-> "", pages |-> <<>>]

\* a worker waiting for a request, having begun k requests so far
IdleProc(k) ==
    [pc |-> "idle", op |-> "", fid |-> "", a |-> 0, to |-> NoTo,
     doc |-> <<>>, n |-> 0, m |-> NoLedger, fresh |-> FALSE,
     pre |-> [pdf |-> NoPdf, meta |-> NoMeta],
     status |-> "", io |-> <<>>, failed |-> "", k |-> k]

---------------------------------------------------------------------------
(* Requests, one at a time, each served from its first line to its response *)

NoOut == [name |-> <<>>, pages |-> <<>>]

\* the request is recorded with the response it got
Respond(op, fid, a, to, status, out) ==
    last' = [op |-> op, fid |-> fid, a |-> a, to |-> to, status |-> status,
             out |-> out]

\* the two artifacts of fid become those of the outcome r
Store(fid, r) ==
    /\ pdf' = [pdf EXCEPT ![fid] = r.pdf]
    /\ meta' = [meta EXCEPT ![fid] = r.meta]

Init ==
    /\ pdf = [f \in AllFids |-> NoPdf]
    /\ meta = [f \in AllFids |-> NoMeta]
    /\ uploaded = [f \in AllFids |-> 0]
    /\ last = [op |-> "start", fid |-> "", a |-> 0, to |-> NoTo,
               status |-> "ok", out |-> NoOut]
    /\ tmp = [f \in AllFids |-> NoPdf]
    /\ proc = [p \in Procs |-> IdleProc(0)]

\* uuid4 gives an id nothing is stored under and no request has named
FreshId(fid) ==
    /\ ~pdf[fid].exists /\ ~meta[fid].exists /\ ~tmp[fid].exists
    /\ \A p \in Procs : proc[p].fid # fid

\* POST /upload.  A request without a file or with a name not ending in
\* .pdf is answered 400.  Otherwise one of docs is stored under a fresh id
\* drawn from fids and its ledger is written as 1..len(doc).
UploadOf(fids, docs) ==
    \E present \in BOOLEAN, name \in UploadNames :
        IF ~present \/ ~IsPdfName(name)
        THEN /\ UNCHANGED <<pdf, meta, uploaded>>
             /\ Respond("upload", "", 0, NoTo, "invalid", NoOut)
        ELSE \E fid \in fids :
             /\ FreshId(fid)
             /\ \E rots \in docs :
                LET doc == UploadedPages(rots)
                IN  /\ Store(fid, Outcome(SavedPdf(doc),
                            SavedMeta([filename |-> name.stem,
                                       pages |-> RangeFrom1(Len(doc))]),
                            "redirect"))
                    /\ uploaded' = [uploaded EXCEPT ![fid] = Len(doc)]
             /\ Respond("upload", fid, 0, NoTo, "redirect", NoOut)

\* POST /upload of any of the documents of UploadDocs
Upload(fids) == UploadOf(fids, UploadDocs)

\* GET /edit/<fid>
Edit(fid) ==
    /\ UNCHANGED <<pdf, meta, uploaded>>
    /\ IF ~pdf[fid].exists
       THEN Respond("edit", fid, 0, NoTo, "notfound", NoOut)
       ELSE LET doc == pdf[fid].pages
                m == LoadMeta(meta[fid], Len(doc))
            IN  IF PageInfoOk(doc, m.pages)
                THEN Respond("edit", fid, 0, NoTo, "ok",
                             [name |-> <<m.filename, ".pdf">>,
                              pages |-> PageInfo(doc, m.pages)])
                ELSE Respond("edit", fid, 0, NoTo, "error", NoOut)

\* POST /rotate/<fid>/<page_idx>
Rotate(fid, page_idx) ==
    \E r \in {RotateHandler(Snapshot(fid), page_idx)} :
        /\ Store(fid, r)
        /\ UNCHANGED uploaded
        /\ Respond("rotate", fid, page_idx, NoTo, r.status, NoOut)

\* POST /delete/<fid>/<page_idx>
Delete(fid, page_idx) ==
    \E r \in {DeleteHandler(Snapshot(fid), page_idx)} :
        /\ Store(fid, r)
        /\ UNCHANGED uploaded
        /\ Respond("delete", fid, page_idx, NoTo, r.status, NoOut)

\* POST /move/<fid>/<from_idx> with form field to
Move(fid, from_idx, to) ==
    \E r \in {MoveHandler(Snapshot(fid), from_idx, to)} :
        /\ Store(fid, r)
        /\ UNCHANGED uploaded
        /\ Respond("move", fid, from_idx, to, r.status, NoOut)

\* GET /download/<fid>: the binary is sent under the derived name and
\* _cleanup removes both artifacts; the response is recorded by its name
Download(fid) ==
    IF ~pdf[fid].exists
    THEN /\ UNCHANGED <<pdf, meta, uploaded>>
         /\ Respond("download", fid, 0, NoTo, "notfound", NoOut)
    ELSE /\ Store(fid, Outcome(NoPdf, NoMeta, "ok"))
         /\ uploaded' = [uploaded EXCEPT ![fid] = 0]
         /\ Respond("download", fid, 0, NoTo, "ok",
                [name |-> <<LoadMeta(meta[fid], 0).filename, "_edited.pdf">>,
                 pages |-> <<>>])

\* requests arrive one at a time and each is served to its response before
\* the next; no worker is inside a handler between two steps
Next ==
    \/ Upload(SeqFids) /\ UNCHANGED <<tmp, proc>>
    \/ \E fid \in SeqFids : Edit(fid) /\ UNCHANGED <<tmp, proc>>
    \/ \E fid \in SeqFids, page_idx \in PageIdxInputs :
           Rotate(fid, page_idx) /\ UNCHANGED <<tmp, proc>>
    \/ \E fid \in SeqFids, page_idx \in PageIdxInputs :
           Delete(fid, page_idx) /\ UNCHANGED <<tmp, proc>>
    \/ \E fid \in SeqFids, req \in MoveInputs :
           Move(fid, req[1], req[2]) /\ UNCHANGED <<tmp, proc>>
    \/ \E fid \in SeqFids : Download(fid) /\ UNCHANGED <<tmp, proc>>

Spec == Init /\ [][Next]_vars

\* the shape of the state
TypeOK ==
    /\ \A f \in AllFids :
        /\ pdf[f].exists \in BOOLEAN
        /\ \A i \in DOMAIN pdf[f].pages : pdf[f].pages[i].rot \in Rotations
        /\ meta[f].exists \in BOOLEAN
        /\ uploaded[f] \in 0 .. MaxPages
    /\ last.status \in {"ok", "redirect", "notfound", "invalid", "error"}

---------------------------------------------------------------------------
(* The handlers one file operation at a time.  A worker p keeps in proc[p] *)
(* the request it serves, what it has in memory (doc, n, m), the artifacts *)
(* it found when it began (pre), the saves it has made (io) and, once at   *)
(* "respond", the response.  oks is the set of outcomes the file system    *)
(* may give a write (TRUE: it succeeds); cap is the number of requests a   *)
(* worker takes in a run.                                                   *)

\* the most pages a document has in the step-by-step specifications
StepPages == 2

\* the most requests a worker takes where requests are counted
MaxRequests == 2

\* the PDFs uploaded there: n pages, each with a rotation
StepDocs == UNION {[1 .. n -> Rotations] : n \in 0 .. StepPages}

\* the page indices and move requests tried there
StepIdx == 0 .. StepPages

StepMoves ==
    {<<f, IntTo(t)>> : f \in 0 .. StepPages - 1, t \in 0 .. StepPages - 1}
    \cup {<<StepPages, IntTo(0)>>, <<0, IntTo(StepPages)>>, <<0, BadTo>>}

\* a file that exists and is not a PDF fitz can open, written as a page no
\* upload has
Garbled == [exists |-> TRUE, pages |-> <<[id |-> 0, rot |-> 0]>>]

\* fitz.open(path) succeeds
Opens(f) == f.exists /\ f # Garbled

\* a slip: every session shares one temporary file
TmpPath_shared(fid) == "f1"

\* tmp = path + ".tmp": the temporary file of a session is its own
TmpPath(fid) == fid

\* a slip: every operation saves incrementally
SaveMode_allincr(op) == "incremental"

\* rotate saves with incremental=True; delete and move save the whole
\* document to the temporary file and rename it over the binary
SaveMode(op) == IF op = "rotate" THEN "incremental" ELSE "full"

\* where a handler that has changed its document goes to save it
SavePc(op) == IF SaveMode(op) = "incremental" THEN "save_incr" ELSE "save_tmp"

\* doc.save(path, incremental=True) appends the changed objects to the file
\* now at path: the saved document if that is still the file that was
\* opened, and otherwise either that or a file that is no PDF
IncrementalSave(current, opened, doc) ==
    IF current = opened THEN {SavedPdf(doc)}
    ELSE IF current.exists THEN {SavedPdf(doc), Garbled}
    ELSE {Garbled}

\* a slip: a failing replace leaves a part of the new file at path
FailedReplace_partial(current, new) == Garbled

\* os.replace(tmp, path) is atomic: when it fails the file at path is the
\* one that was there
FailedReplace(current, new) == current

\* the worker is free and may take another request
Admit(p, cap) == proc[p].pc = "idle" /\ proc[p].k < cap

\* worker p as it begins request op on session fid
Begin(p, op, fid, a, to) ==
    [IdleProc(proc[p].k + 1) EXCEPT
        !.pc = "begun", !.op = op, !.fid = fid, !.a = a, !.to = to,
        !.pre = Snapshot(fid)]

\* the handler returns (or raises): the response is ready
Done(r, status) == [r EXCEPT !.pc = "respond", !.status = status]

\* the save r.io has one more entry
Logged(r, what) == [r EXCEPT !.io = Append(r.io, what)]

Goto(p, r) == proc' = [proc EXCEPT ![p] = r]

\* rotate, lines 205-211: open, test the index, turn the page in memory
RotateOpen(p, fid, page_idx, cap) ==
    /\ Admit(p, cap)
    /\ LET r == Begin(p, "rotate", fid, page_idx, NoTo)
           doc == pdf[fid].pages
       IN  Goto(p, IF ~Opens(pdf[fid]) THEN Done(r, "error")
                   ELSE IF RotateGuard(Len(doc), page_idx)
                   THEN [r EXCEPT !.pc = SavePc("rotate"),
                                  !.doc = RotateDoc(doc, page_idx),
                                  !.n = Len(doc)]
                   ELSE Done(r, "redirect"))
    /\ UNCHANGED <<pdf, meta, uploaded, last, tmp>>

\* delete, lines 221-226: open, test the index, delete the page in memory
DeleteOpen(p, fid, page_idx, cap) ==
    /\ Admit(p, cap)
    /\ LET r == Begin(p, "delete", fid, page_idx, NoTo)
           doc == pdf[fid].pages
       IN  Goto(p, IF ~Opens(pdf[fid]) THEN Done(r, "error")
                   ELSE IF DeleteGuard(Len(doc), page_idx)
                   THEN [r EXCEPT !.pc = SavePc("delete"),
                                  !.doc = DeletePage(doc, page_idx),
                                  !.n = Len(doc)]
                   ELSE Done(r, "redirect"))
    /\ UNCHANGED <<pdf, meta, uploaded, last, tmp>>

\* move, lines 245-254: parse to, open, test the indices, reorder in memory
MoveOpen(p, fid, from_idx, to, cap) ==
    /\ Admit(p, cap)
    /\ LET r == Begin(p, "move", fid, from_idx, to)
           doc == pdf[fid].pages
           n == Len(doc)
           to_idx == ToIdx(to, from_idx)
       IN  Goto(p, IF ~ToOk(to) \/ ~Opens(pdf[fid]) THEN Done(r, "error")
                   ELSE IF MoveGuard(n, from_idx, to_idx)
                   THEN [r EXCEPT !.pc = SavePc("move"),
                                  !.doc = Select(doc,
                                      MoveOrder(n, from_idx, to_idx)),
                                  !.n = n]
                   ELSE Done(r, "redirect"))
    /\ UNCHANGED <<pdf, meta, uploaded, last, tmp>>

\* after the binary is saved rotate returns; delete and move go on to the
\* ledger
AfterSave(r) ==
    IF r.op = "rotate" THEN Done(r, "redirect")
    ELSE [r EXCEPT !.pc = "load_meta"]

\* doc.save(path, incremental=True, ...)
SaveIncremental(p) ==
    /\ proc[p].pc = "save_incr"
    /\ LET r == proc[p]
       IN  \E f \in IncrementalSave(pdf[r.fid], r.pre.pdf, r.doc) :
               /\ pdf' = [pdf EXCEPT ![r.fid] = f]
               /\ Goto(p, AfterSave(Logged(r, "incremental")))
    /\ UNCHANGED <<meta, uploaded, last, tmp>>

\* doc.save(tmp, deflate=True): a failing write raises and may leave a part
\* of the file
SaveTmp(p, oks) ==
    /\ proc[p].pc = "save_tmp"
    /\ LET r == proc[p]
           t == TmpPath(r.fid)
       IN  \E ok \in oks :
             IF ok
             THEN /\ tmp' = [tmp EXCEPT ![t] = SavedPdf(r.doc)]
                  /\ Goto(p, [Logged(r, "tmp") EXCEPT !.pc = "replace"])
             ELSE /\ \E f \in {tmp[t], Garbled} : tmp' = [tmp EXCEPT ![t] = f]
                  /\ Goto(p, [Done(r, "error") EXCEPT !.failed = "save_tmp"])
    /\ UNCHANGED <<pdf, meta, uploaded, last>>

\* os.replace(tmp, path): raises when the temporary file is not there
Replace(p, oks) ==
    /\ proc[p].pc = "replace"
    /\ LET r == proc[p]
           t == TmpPath(r.fid)
       IN  \E ok \in oks :
             IF ok /\ tmp[t].exists
             THEN /\ pdf' = [pdf EXCEPT ![r.fid] = tmp[t]]
                  /\ tmp' = [tmp EXCEPT ![t] = NoPdf]
                  /\ Goto(p, AfterSave(Logged(r, "replace")))
             ELSE /\ pdf' = [pdf EXCEPT ![r.fid] =
                                 FailedReplace(pdf[r.fid], tmp[t])]
                  /\ tmp' = tmp
                  /\ Goto(p, [Done(r, "error") EXCEPT !.failed = "replace"])
    /\ UNCHANGED <<meta, uploaded, last>>

\* meta = _load_meta(fid, n); fresh records that the file was missing and
\* the ledger was made up as 1..n
LoadMetaStep(p) ==
    /\ proc[p].pc = "load_meta"
    /\ LET r == proc[p]
       IN  Goto(p, [r EXCEPT !.pc = "save_meta",
                             !.m = LoadMeta(meta[r.fid], r.n),
                             !.fresh = ~meta[r.fid].exists])
    /\ UNCHANGED <<pdf, meta, uploaded, last, tmp>>

\* the ledger a delete or move writes from the one it loaded
NewLedger(r) ==
    IF r.op = "delete" THEN DeleteLedger(r.m.pages, r.a)
    ELSE MoveLedger(r.m.pages, r.a, ToIdx(r.to, r.a))

\* meta["pages"].pop(...) (and insert), then _save_meta(fid, meta)
SaveMetaStep(p) ==
    /\ proc[p].pc = "save_meta"
    /\ LET r == proc[p]
       IN  IF PopOk(r.m.pages, r.a)
           THEN /\ meta' = [meta EXCEPT ![r.fid] =
                               SavedMeta([r.m EXCEPT !.pages = NewLedger(r)])]
                /\ Goto(p, Done(r, "redirect"))
           ELSE /\ meta' = meta
                /\ Goto(p, Done(r, "error"))
    /\ UNCHANGED <<pdf, uploaded, last, tmp>>

\* download, lines 273-274: if not os.path.exists(path): 404
DownloadCheck(p, fid, cap) ==
    /\ Admit(p, cap)
    /\ LET r == Begin(p, "download", fid, 0, NoTo)
       IN  Goto(p, IF ~pdf[fid].exists THEN Done(r, "notfound")
                   ELSE [r EXCEPT !.pc = "dl_meta"])
    /\ UNCHANGED <<pdf, meta, uploaded, last, tmp>>

\* meta = _load_meta(fid, 0), for the download name
DownloadMeta(p) ==
    /\ proc[p].pc = "dl_meta"
    /\ LET r == proc[p]
       IN  Goto(p, [r EXCEPT !.pc = "dl_open",
                             !.m = LoadMeta(meta[r.fid], 0),
                             !.fresh = ~meta[r.fid].exists])
    /\ UNCHANGED <<pdf, meta, uploaded, last, tmp>>

\* send_file(path, ...) opens the file it will stream; the view returns
DownloadOpen(p) ==
    /\ proc[p].pc = "dl_open"
    /\ LET r == proc[p]
       IN  Goto(p, IF ~pdf[r.fid].exists THEN Done(r, "error")
                   ELSE [r EXCEPT !.pc = "dl_rm_pdf",
                                  !.doc = pdf[r.fid].pages])
    /\ UNCHANGED <<pdf, meta, uploaded, last, tmp>>

\* _cleanup, run by Flask when the view has returned and before the body is
\* streamed: os.remove(path); a missing file raises OSError, which ends
\* _cleanup
CleanupPdf(p) ==
    /\ proc[p].pc = "dl_rm_pdf"
    /\ LET r == proc[p]
       IN  IF pdf[r.fid].exists
           THEN /\ pdf' = [pdf EXCEPT ![r.fid] = NoPdf]
                /\ uploaded' = [uploaded EXCEPT ![r.fid] = 0]
                /\ Goto(p, [r EXCEPT !.pc = "dl_rm_meta"])
           ELSE /\ UNCHANGED <<pdf, uploaded>>
                /\ Goto(p, [r EXCEPT !.pc = "dl_send"])
    /\ UNCHANGED <<meta, last, tmp>>

\* _cleanup: if os.path.exists(meta_path): os.remove(meta_path)
CleanupMeta(p) ==
    /\ proc[p].pc = "dl_rm_meta"
    /\ meta' = [meta EXCEPT ![proc[p].fid] = NoMeta]
    /\ Goto(p, [proc[p] EXCEPT !.pc = "dl_send"])
    /\ UNCHANGED <<pdf, uploaded, last, tmp>>

\* the server streams the opened file to the client; the connection may
\* break before the body is through
Transfer(p, oks) ==
    /\ proc[p].pc = "dl_send"
    /\ \E ok \in oks :
           Goto(p, IF ok THEN Done(proc[p], "ok")
                   ELSE [Done(proc[p], "aborted") EXCEPT !.failed = "transfer"])
    /\ UNCHANGED <<pdf, meta, uploaded, last, tmp>>

\* the response is out and the worker is free again
Return(p) ==
    /\ proc[p].pc = "respond"
    /\ Goto(p, IdleProc(proc[p].k))
    /\ UNCHANGED <<pdf, meta, uploaded, last, tmp>>

\* one worker, one session, writes that may fail; the worker takes
\* MaxRequests requests
NextStep ==
    \/ UploadOf({"f1"}, StepDocs) /\ UNCHANGED <<tmp, proc>>
    \/ \E page_idx \in StepIdx : RotateOpen("p1", "f1", page_idx, MaxRequests)
    \/ \E page_idx \in StepIdx : DeleteOpen("p1", "f1", page_idx, MaxRequests)
    \/ \E req \in StepMoves : MoveOpen("p1", "f1", req[1], req[2], MaxRequests)
    \/ DownloadCheck("p1", "f1", MaxRequests)
    \/ SaveIncremental("p1")
    \/ SaveTmp("p1", BOOLEAN)
    \/ Replace("p1", BOOLEAN)
    \/ LoadMetaStep("p1")
    \/ SaveMetaStep("p1")
    \/ DownloadMeta("p1")
    \/ DownloadOpen("p1")
    \/ CleanupPdf("p1")
    \/ CleanupMeta("p1")
    \/ Transfer("p1", BOOLEAN)
    \/ Return("p1")

SpecStep == Init /\ [][NextStep]_vars

\* the PDFs uploaded where two workers share a session: n pages, none
\* rotated
RaceDocs == {[i \in 1 .. n |-> 0] : n \in 0 .. StepPages}

\* two workers on one session, each taking MaxRequests requests; every write
\* succeeds
NextRace ==
    \/ UploadOf({"f1"}, RaceDocs) /\ UNCHANGED <<tmp, proc>>
    \/ \E p \in Procs, page_idx \in StepIdx :
           RotateOpen(p, "f1", page_idx, MaxRequests)
    \/ \E p \in Procs, page_idx \in StepIdx :
           DeleteOpen(p, "f1", page_idx, MaxRequests)
    \/ \E p \in Procs, req \in StepMoves :
           MoveOpen(p, "f1", req[1], req[2], MaxRequests)
    \/ \E p \in Procs : DownloadCheck(p, "f1", MaxRequests)
    \/ \E p \in Procs : SaveIncremental(p)
    \/ \E p \in Procs : SaveTmp(p, {TRUE})
    \/ \E p \in Procs : Replace(p, {TRUE})
    \/ \E p \in Procs : LoadMetaStep(p)
    \/ \E p \in Procs : SaveMetaStep(p)
    \/ \E p \in Procs : DownloadMeta(p)
    \/ \E p \in Procs : DownloadOpen(p)
    \/ \E p \in Procs : CleanupPdf(p)
    \/ \E p \in Procs : CleanupMeta(p)
    \/ \E p \in Procs : Transfer(p, {TRUE})
    \/ \E p \in Procs : Return(p)

SpecRace == Init /\ [][NextRace]_vars

\* the session whose requests worker p serves where each worker has a
\* session of its own
Home(p) == IF p = "p1" THEN "f1" ELSE "f2"

\* the other of the two workers
Other(p) == IF p = "p1" THEN "p2" ELSE "p1"

\* the requests worker p may take where the two workers take MaxRequests
\* between them
Left(p) == MaxRequests - proc[Other(p)].k

\* the PDF uploaded where there are two sessions: StepPages pages, none
\* rotated
TwoDocs == {[i \in 1 .. StepPages |-> 0]}

\* two sessions, each with a worker of its own, MaxRequests requests
\* between them; every write succeeds
NextTwo ==
    \/ UploadOf(AllFids, TwoDocs) /\ UNCHANGED <<tmp, proc>>
    \/ \E p \in Procs, page_idx \in StepIdx :
           RotateOpen(p, Home(p), page_idx, Left(p))
    \/ \E p \in Procs, page_idx \in StepIdx :
           DeleteOpen(p, Home(p), page_idx, Left(p))
    \/ \E p \in Procs, req \in StepMoves :
           MoveOpen(p, Home(p), req[1], req[2], Left(p))
    \/ \E p \in Procs : DownloadCheck(p, Home(p), Left(p))
    \/ \E p \in Procs : SaveIncremental(p)
    \/ \E p \in Procs : SaveTmp(p, {TRUE})
    \/ \E p \in Procs : Replace(p, {TRUE})
    \/ \E p \in Procs : LoadMetaStep(p)
    \/ \E p \in Procs : SaveMetaStep(p)
    \/ \E p \in Procs : DownloadMeta(p)
    \/ \E p \in Procs : DownloadOpen(p)
    \/ \E p \in Procs : CleanupPdf(p)
    \/ \E p \in Procs : CleanupMeta(p)
    \/ \E p \in Procs : Transfer(p, {TRUE})
    \/ \E p \in Procs : Return(p)

SpecTwo == Init /\ [][NextTwo]_vars

---------------------------------------------------------------------------
(* Vocabulary of the properties *)

\* the stored ledger of fid
Ledger(fid) == meta[fid].pages

\* the stored page sequence of fid
Pages(fid) == pdf[fid].pages

\* the ids / rotations of a page sequence, in order
Ids(doc) == [i \in 1 .. Len(doc) |-> doc[i].id]

Rots(doc) == [i \in 1 .. Len(doc) |-> doc[i].rot]

\* how often v occurs in the list s
Count(s, v) == Cardinality({i \in 1 .. Len(s) : s[i] = v})

\* the step serves request op on session fid
Served(op, fid) == last'.op = op /\ last'.fid = fid

\* the step leaves every artifact as it was
StoreUnchanged == pdf' = pdf /\ meta' = meta

\* position k (0-based) of a list of n entries after the entry at from was
\* taken out and put back at to holds the entry that was at Source
Source(k, from, to) ==
    IF k = to THEN from
    ELSE LET j == IF k < to THEN k ELSE k - 1
         IN  IF j < from THEN j ELSE j + 1

---------------------------------------------------------------------------
(* C1 .. C4 *)

\* C1: after every completed upload, Rotate, Delete or Move the stored
\* ledger has exactly as many entries as the stored document has pages, and
\* ledger[i] is the upload-time page number of the page now at position i.
C1_LedgerMirrorsDocument ==
    \A fid \in AllFids :
        pdf[fid].exists =>
            /\ meta[fid].exists
            /\ Len(Ledger(fid)) = Len(Pages(fid))
            /\ \A i \in 1 .. Len(Pages(fid)) :
                   Ledger(fid)[i] = Pages(fid)[i].id

\* a 3-page upload after a deletion and reordering: page 3 first, page 1 second
C1_Witness ==
    \E fid \in AllFids :
        /\ pdf[fid].exists /\ uploaded[fid] = 3
        /\ last.op \in {"delete", "move"}
        /\ Ids(Pages(fid)) = <<3, 1>>
        /\ Ledger(fid) = <<3, 1>>

\* C2: for a session uploaded with N pages, in every reachable state the
\* original indices in the ledger are pairwise distinct and lie in 1..N.
C2_LedgerDistinctInRange ==
    \A fid \in AllFids :
        pdf[fid].exists =>
            /\ \A i \in 1 .. Len(Ledger(fid)) :
                   Ledger(fid)[i] \in 1 .. uploaded[fid]
            /\ \A i, j \in 1 .. Len(Ledger(fid)) :
                   i # j => Ledger(fid)[i] # Ledger(fid)[j]

\* a move has just reversed the two pages left of a 3-page upload
C2_Witness ==
    \E fid \in AllFids :
        /\ pdf[fid].exists /\ uploaded[fid] = 3
        /\ last.op = "move" /\ last.status = "redirect"
        /\ Ledger(fid) = <<3, 2>>

\* C3: for a session with more than one page and 0 <= i < pageCount,
\* Delete(i) takes exactly one page off the document, removes from the
\* ledger exactly the original index that was at position i, and keeps all
\* other pages and entries in order, those after i one position lower.
C3_DeleteRemovesExactlyOne ==
    [][\A fid \in AllFids :
        (/\ Served("delete", fid)
         /\ pdf[fid].exists
         /\ Len(Pages(fid)) > 1
         /\ last'.a < Len(Pages(fid)))
        => LET i == last'.a
               old == Pages(fid)
               new == pdf'[fid].pages
               oldL == Ledger(fid)
               newL == meta'[fid].pages
           IN  /\ Len(new) = Len(old) - 1
               /\ Len(newL) = Len(oldL) - 1
               /\ \A k \in 1 .. Len(new) :
                      new[k] = IF k <= i THEN old[k] ELSE old[k + 1]
               /\ \A k \in 1 .. Len(newL) :
                      newL[k] = IF k <= i THEN oldL[k] ELSE oldL[k + 1]
               /\ {newL[k] : k \in 1 .. Len(newL)} =
                      {oldL[k] : k \in 1 .. Len(oldL)} \ {oldL[i + 1]}
    ]_vars

\* position 0 of a reordered 3-page document has just been deleted
C3_Witness ==
    \E fid \in AllFids :
        /\ pdf[fid].exists /\ uploaded[fid] = 3
        /\ last.op = "delete" /\ last.fid = fid /\ last.a = 0
        /\ last.status = "redirect"
        /\ Ledger(fid) = <<1, 2>>
        /\ Ids(Pages(fid)) = <<1, 2>>

\* C4: Delete on a document of exactly one page changes nothing, and a
\* session uploaded with at least one page has at least one page in every
\* state reached by Rotate, Delete and Move.
C4_KeepsLastPage ==
    [][/\ \A fid \in AllFids :
            (Served("delete", fid) /\ pdf[fid].exists /\ Len(Pages(fid)) = 1)
            => StoreUnchanged
       /\ \A fid \in AllFids :
            (pdf'[fid].exists /\ uploaded'[fid] >= 1)
            => Len(pdf'[fid].pages) >= 1
    ]_vars

\* Delete(0) has just been served on a document uploaded with one page
C4_Witness ==
    \E fid \in AllFids :
        /\ pdf[fid].exists /\ uploaded[fid] = 1
        /\ last.op = "delete" /\ last.fid = fid /\ last.a = 0
        /\ last.status = "redirect"
        /\ Len(Pages(fid)) = 1

---------------------------------------------------------------------------
(* C5 .. C10 *)

\* C5: for from, to in [0, pageCount) with from # to, Move(from, to) yields
\* the sequence got by removing the page at from and inserting it at
\* position to of the shortened sequence, so the moved page ends at to; the
\* ledger is permuted the same way and holds the same multiset of original
\* indices before and after.
C5_MoveIsPopThenInsert ==
    [][\A fid \in AllFids :
        (/\ Served("move", fid)
         /\ pdf[fid].exists
         /\ last'.to.kind = "int"
         /\ last'.a < Len(Pages(fid))
         /\ 0 <= last'.to.val /\ last'.to.val < Len(Pages(fid))
         /\ last'.a # last'.to.val)
        => LET from == last'.a
               to == last'.to.val
               old == Pages(fid)
               new == pdf'[fid].pages
               oldL == Ledger(fid)
               newL == meta'[fid].pages
           IN  /\ Len(new) = Len(old)
               /\ Len(newL) = Len(oldL)
               /\ new[to + 1] = old[from + 1]
               /\ newL[to + 1] = oldL[from + 1]
               /\ \A k \in 0 .. Len(old) - 1 :
                      /\ new[k + 1] = old[Source(k, from, to) + 1]
                      /\ newL[k + 1] = oldL[Source(k, from, to) + 1]
               /\ \A v \in 1 .. uploaded[fid] : Count(newL, v) = Count(oldL, v)
    ]_vars

\* the first page of a 3-page document has just been moved to the end
C5_Witness ==
    \E fid \in AllFids :
        /\ pdf[fid].exists /\ uploaded[fid] = 3
        /\ last.op = "move" /\ last.fid = fid
        /\ last.a = 0 /\ last.to = IntTo(2)
        /\ Ledger(fid) = <<2, 3, 1>>
        /\ Ids(Pages(fid)) = <<2, 3, 1>>

\* C6: for from, to in [0, pageCount) with from # to, Move(from, to)
\* followed by Move(to, from) restores the page order of the document and
\* the order of the ledger: the move handler applied to what the move
\* handler leaves gives back the artifacts it started from, in every
\* reachable state of a session.
C6_MoveThenMoveBackRestores ==
    \A fid \in AllFids :
        pdf[fid].exists =>
            \A from, to \in 0 .. Len(Pages(fid)) - 1 :
                from # to =>
                    LET there == MoveHandler(Snapshot(fid), from, IntTo(to))
                        back == MoveHandler(
                                    [pdf |-> there.pdf, meta |-> there.meta],
                                    to, IntTo(from))
                    IN  /\ there.status = "redirect"
                        /\ there.pdf # pdf[fid]
                        /\ back.status = "redirect"
                        /\ back.pdf = pdf[fid]
                        /\ back.meta = meta[fid]

\* a move across two positions has been served on a 3-page document whose
\* page order is now neither the uploaded one nor its reverse
C6_Witness ==
    \E fid \in AllFids :
        /\ pdf[fid].exists /\ uploaded[fid] = 3
        /\ last.op = "move" /\ last.fid = fid
        /\ last.a = 2 /\ last.to = IntTo(0)
        /\ Ledger(fid) = <<3, 1, 2>>

\* C7: for 0 <= pageIndex < pageCount, Rotate(pageIndex) sets that page's
\* rotation to (current + 90) mod 360, a value in {0, 90, 180, 270}, and
\* leaves the page count, the page order, every other page's rotation and
\* the whole ledger unchanged.
C7_RotateOnlyTurnsOnePage ==
    [][\A fid \in AllFids :
        (/\ Served("rotate", fid)
         /\ pdf[fid].exists
         /\ last'.a < Len(Pages(fid)))
        => LET i == last'.a
               old == Pages(fid)
               new == pdf'[fid].pages
           IN  /\ Len(new) = Len(old)
               /\ Ids(new) = Ids(old)
               /\ new[i + 1].rot = (old[i + 1].rot + 90) % 360
               /\ new[i + 1].rot \in {0, 90, 180, 270}
               /\ \A k \in 1 .. Len(old) : k # i + 1 => new[k].rot = old[k].rot
               /\ meta' = meta
    ]_vars

\* the middle page of a 3-page document has just been turned to 180
C7_Witness ==
    \E fid \in AllFids :
        /\ pdf[fid].exists
        /\ last.op = "rotate" /\ last.fid = fid /\ last.a = 1
        /\ Rots(Pages(fid)) = <<0, 180, 0>>
        /\ Ledger(fid) = <<1, 2, 3>>

\* C8: for every valid pageIndex, Rotate(pageIndex) applied four times in a
\* row returns the page's rotation to the value it had before the first:
\* the rotate handler applied four times to the artifacts of any reachable
\* session leaves them as they were, and fewer applications do not.
C8_FourRotationsRestore ==
    \A fid \in AllFids :
        pdf[fid].exists =>
            \A i \in 0 .. Len(Pages(fid)) - 1 :
                LET Turn(s) == LET r == RotateHandler(s, i)
                               IN  [pdf |-> r.pdf, meta |-> r.meta]
                    s0 == Snapshot(fid)
                    s1 == Turn(s0)
                    s2 == Turn(s1)
                    s3 == Turn(s2)
                    s4 == Turn(s3)
                IN  /\ s4 = s0
                    /\ s4.pdf.pages[i + 1].rot = Pages(fid)[i + 1].rot
                    /\ s1 # s0 /\ s2 # s0 /\ s3 # s0

\* a rotation has just wrapped the first page of a document from 270 to 0
C8_Witness ==
    \E fid \in AllFids :
        /\ pdf[fid].exists /\ Len(Pages(fid)) = 2
        /\ last.op = "rotate" /\ last.fid = fid /\ last.a = 0
        /\ Rots(Pages(fid)) = <<0, 270>>

C10_EndToEndScenario ==
    [][\A fid \in AllFids :
        LET Doc(ids, rots) == [i \in 1 .. Len(ids) |->
                                  [id |-> ids[i], rot |-> rots[i]]]
            At(ids, rots) == /\ pdf[fid].exists
                             /\ Pages(fid) = Doc(ids, rots)
                             /\ Ledger(fid) = ids
            Gives(ids, rots) == /\ pdf'[fid].exists
                                /\ Ids(pdf'[fid].pages) = ids
                                /\ Rots(pdf'[fid].pages) = rots
                                /\ Len(pdf'[fid].pages) = Len(ids)
                                /\ meta'[fid].pages = ids
        IN  /\ (Served("upload", fid) /\ last'.status = "redirect"
                    /\ Rots(pdf'[fid].pages) = <<0, 0, 0>>)
               => Gives(<<1, 2, 3>>, <<0, 0, 0>>)
            /\ (At(<<1, 2, 3>>, <<0, 0, 0>>) /\ Served("rotate", fid)
                    /\ last'.a = 0)
               => Gives(<<1, 2, 3>>, <<90, 0, 0>>)
            /\ (At(<<1, 2, 3>>, <<90, 0, 0>>) /\ Served("move", fid)
                    /\ last'.a = 0 /\ last'.to = IntTo(2))
               => Gives(<<2, 3, 1>>, <<0, 0, 90>>)
            /\ (At(<<2, 3, 1>>, <<0, 0, 90>>) /\ Served("delete", fid)
                    /\ last'.a = 1)
               => Gives(<<2, 1>>, <<0, 90>>)
    ]_vars

\* the state the scenario ends in: Delete(1) has left pages 2 and 1, the
\* second turned to 90
C10_Witness ==
    \E fid \in AllFids :
        /\ pdf[fid].exists /\ uploaded[fid] = 3
        /\ last.op = "delete" /\ last.fid = fid /\ last.a = 1
        /\ Ledger(fid) = <<2, 1>>
        /\ Rots(Pages(fid)) = <<0, 90>>
        /\ Ids(Pages(fid)) = <<2, 1>>

---------------------------------------------------------------------------
(* C15, C17, C20: requests served one at a time *)

\* the requests that load a session: the listing and the three edits, and
\* the download
LoadOps == {"edit", "rotate", "delete", "move", "download"}

\* C15: a completed Download leaves neither the binary nor the metadata of
\* its session, and a load of that id that follows it (listing, Rotate,
\* Delete, Move, Download) is answered NotFound.
C15_DownloadThenNotFound ==
    [][\A fid \in AllFids :
        /\ (Served("download", fid) /\ last'.status = "ok")
           => (~pdf'[fid].exists /\ ~meta'[fid].exists)
        /\ (/\ last.op = "download" /\ last.fid = fid /\ last.status = "ok"
            /\ last'.fid = fid /\ last'.op \in LoadOps)
           => last'.status = "notfound"
    ]_vars

\* C17: a listing, Rotate, Delete, Move or Download of a session id that
\* has neither binary nor metadata is answered NotFound and leaves every
\* artifact as it was.
C17_MissingSessionIsNotFound ==
    [][\A fid \in AllFids :
        (/\ ~pdf[fid].exists /\ ~meta[fid].exists
         /\ last'.fid = fid /\ last'.op \in LoadOps)
        => (last'.status = "notfound" /\ StoreUnchanged)
    ]_vars

\* C20: after a Delete or Move every page that is still in the document,
\* identified by its original index in the ledger, has the rotation it had
\* before the operation.
C20_RotationTravelsWithPage ==
    [][\A fid \in AllFids :
        (/\ last'.op \in {"delete", "move"} /\ last'.fid = fid
         /\ last'.status = "redirect"
         /\ pdf[fid].exists /\ meta[fid].exists)
        => /\ Len(pdf'[fid].pages) = Len(meta'[fid].pages)
           /\ \A j \in 1 .. Len(meta'[fid].pages) :
                \A i \in 1 .. Len(Ledger(fid)) :
                    Ledger(fid)[i] = meta'[fid].pages[j]
                    => pdf'[fid].pages[j].rot = Pages(fid)[i].rot
    ]_vars

\* Delete(0) has just taken the first of three pages away; the two left,
\* originally pages 3 and 1, are still turned to 270 and 90
C20_Witness ==
    \E fid \in AllFids :
        /\ pdf[fid].exists /\ uploaded[fid] = 3
        /\ last.op = "delete" /\ last.fid = fid /\ last.a = 0
        /\ last.status = "redirect"
        /\ Ledger(fid) = <<3, 1>>
        /\ Rots(Pages(fid)) = <<270, 90>>

---------------------------------------------------------------------------
(* C11, C12, C16, C19: one worker, step by step, with failing writes *)

\* worker p is serving a Delete or Move
Restructures(p) == proc[p].pc # "idle" /\ proc[p].op \in {"delete", "move"}

\* C11: in every reachable state, also while a Delete or Move is between
\* two of its steps or has failed at one, the stored binary and the stored
\* metadata of its session are both as they were before the operation or
\* both as the operation leaves them: never one new and the other old.
C11_PairReplacedTogether ==
    \A p \in Procs :
        Restructures(p) =>
            ((pdf[proc[p].fid] = proc[p].pre.pdf)
                <=> (meta[proc[p].fid] = proc[p].pre.meta))

\* C12: when the write of the temporary file or the replace fails during a
\* Delete or Move, the stored binary and metadata are exactly what they
\* were before the request.
C12_FailedSaveKeepsPriorState ==
    \A p \in Procs :
        (/\ Restructures(p) /\ proc[p].pc = "respond"
         /\ proc[p].failed \in {"save_tmp", "replace"})
        => Snapshot(proc[p].fid) = proc[p].pre

\* the replace of a Delete on a two-page document has just failed
C12_Witness ==
    \E p \in Procs :
        /\ proc[p].pc = "respond" /\ proc[p].op = "delete"
        /\ proc[p].failed = "replace" /\ proc[p].status = "error"
        /\ Len(proc[p].pre.pdf.pages) = 2
        /\ tmp[TmpPath(proc[p].fid)] = SavedPdf(proc[p].doc)

\* C16: a Download removes the artifacts only once the response is fully
\* sent: while the body is still to be sent both are there, and when the
\* transfer fails both are as they were.
C16_CleanupAfterTransfer ==
    \A p \in Procs :
        proc[p].op = "download" =>
            /\ proc[p].pc = "dl_send"
               => (pdf[proc[p].fid].exists /\ meta[proc[p].fid].exists)
            /\ (proc[p].pc = "respond" /\ proc[p].status = "aborted")
               => Snapshot(proc[p].fid) = proc[p].pre

\* the saves an operation of kind op with index a (and field to) makes on a
\* document of n pages
SavesOf(op, n, a, to) ==
    CASE op = "rotate" ->
            IF RotateGuard(n, a) THEN <<"incremental">> ELSE <<>>
      [] op = "delete" ->
            IF DeleteGuard(n, a) THEN <<"tmp", "replace">> ELSE <<>>
      [] op = "move" ->
            IF MoveGuard(n, a, ToIdx(to, a)) THEN <<"tmp", "replace">>
            ELSE <<>>
      [] OTHER -> <<>>

\* C19: how the binary is saved depends on the kind of operation alone: a
\* Rotate that changes a page saves incrementally, a Delete or Move that
\* changes the document writes the temporary file and replaces the binary,
\* and an incremental save is only made of a document with the pages, in
\* the order, of the stored one.
C19_SaveModeByOperationKind ==
    \A p \in Procs :
        LET r == proc[p]
        IN  /\ r.pc = "save_incr"
               => /\ r.op = "rotate"
                  /\ pdf[r.fid].exists
                  /\ Ids(r.doc) = Ids(pdf[r.fid].pages)
            /\ "incremental" \in {r.io[i] : i \in DOMAIN r.io}
               => r.op = "rotate"
            /\ (r.pc = "respond" /\ r.status = "redirect")
               => r.io = SavesOf(r.op, Len(r.pre.pdf.pages), r.a, r.to)

\* a Move has just been served with a full rewrite and replace, of a
\* document in which an earlier Rotate, saved incrementally, turned a page
C19_Witness ==
    \E p \in Procs :
        /\ proc[p].pc = "respond" /\ proc[p].op = "move"
        /\ proc[p].status = "redirect"
        /\ proc[p].io = <<"tmp", "replace">>
        /\ Rots(pdf[proc[p].fid].pages) = <<0, 90>>
        /\ Ids(pdf[proc[p].fid].pages) = <<2, 1>>

---------------------------------------------------------------------------
(* C13, C18: two workers on one session *)

\* worker p is inside the load-mutate-persist cycle of an edit
InCycle(p) ==
    /\ proc[p].pc \notin {"idle", "respond"}
    /\ proc[p].op \in {"rotate", "delete", "move"}

\* C13: at most one load-mutate-persist cycle is in flight on a session id
\* at any time, and when two edits of one session have both ended the
\* stored ledger lists the pages of the stored document, as after the two
\* in some serial order.
C13_OneCycleAtATime ==
    /\ \A p, q \in Procs :
           (p # q /\ InCycle(p) /\ InCycle(q)) => proc[p].fid # proc[q].fid
    /\ \A fid \in AllFids :
           (/\ \A p \in Procs : proc[p].pc \in {"idle", "respond"}
            /\ \A p \in Procs : proc[p].op \in {"", "rotate", "delete", "move"}
            /\ pdf[fid].exists /\ meta[fid].exists)
           => Ledger(fid) = Ids(Pages(fid))

\* two Deletes that found the same two-page document have both been
\* answered with a redirect, and the ledger names a page the document does
\* not have
C13_Witness ==
    /\ proc["p1"].pc = "respond" /\ proc["p2"].pc = "respond"
    /\ proc["p1"].op = "delete" /\ proc["p2"].op = "delete"
    /\ proc["p1"].status = "redirect" /\ proc["p2"].status = "redirect"
    /\ proc["p1"].fid = proc["p2"].fid
    /\ proc["p1"].pre = proc["p2"].pre
    /\ Len(proc["p1"].pre.pdf.pages) = 2
    /\ Opens(pdf[proc["p1"].fid])
    /\ Len(Ledger(proc["p1"].fid)) = 1
    /\ Ledger(proc["p1"].fid) # Ids(Pages(proc["p1"].fid))

\* C18: the original index of a page is assigned at upload and never
\* computed again: no Delete or Move works on a ledger made up as 1..n, also
\* when it finds the binary without its metadata.
C18_LedgerNeverRebuilt ==
    \A p \in Procs : Restructures(p) => ~proc[p].fresh

\* a Move of pages 2, 1 with ledger [2, 1] lost its metadata to a Download
\* before it loaded them, numbered the pages 1, 2 and has stored a ledger
\* that calls original page 1 page 2; nothing else is running
C18_Witness ==
    \E p \in Procs :
        /\ proc[p].pc = "respond" /\ proc[p].op = "move"
        /\ proc[p].fresh /\ proc[p].status = "redirect"
        /\ Ids(proc[p].pre.pdf.pages) = <<2, 1>>
        /\ proc[p].pre.meta.pages = <<2, 1>>
        /\ \A q \in Procs \ {p} :
               /\ proc[q].pc \in {"idle", "respond"}
               /\ proc[q].op \in {"", "download"}
        /\ Ids(Pages(proc[p].fid)) = <<1, 2>>
        /\ Ledger(proc[p].fid) = <<2, 1>>

---------------------------------------------------------------------------
(* C14: two sessions, each with its own worker *)

\* what request r leaves of the artifacts it found, and its response, when
\* nothing else runs
Alone(r) ==
    CASE r.op = "rotate" -> RotateHandler(r.pre, r.a)
      [] r.op = "delete" -> DeleteHandler(r.pre, r.a)
      [] r.op = "move" -> MoveHandler(r.pre, r.a, r.to)
      [] OTHER -> IF r.pre.pdf.exists THEN Outcome(NoPdf, NoMeta, "ok")
                  ELSE Outcome(r.pre.pdf, r.pre.meta, "notfound")

\* C14: requests on different session ids share no state: a step of the
\* worker of one session leaves the binary, the metadata and the temporary
\* file of every other session as they are, and under every interleaving
\* with the other session's requests a request ends with its session's
\* document and ledger as if it had run alone.
C14_SessionsAreIndependent ==
    [][\A p \in Procs :
        proc'[p] # proc[p] =>
            /\ \A g \in AllFids \ {Home(p)} :
                   pdf'[g] = pdf[g] /\ meta'[g] = meta[g] /\ tmp'[g] = tmp[g]
            /\ proc'[p].pc = "respond"
               => Alone(proc'[p]) =
                      Outcome(pdf'[Home(p)], meta'[Home(p)], proc'[p].status)
    ]_vars

\* the Delete on session f1 has ended with page 2 left, as it would alone,
\* while the Move on session f2 has replaced its binary and not yet
\* written its ledger
C14_Witness ==
    /\ proc["p1"].pc = "respond" /\ proc["p1"].op = "delete"
    /\ proc["p1"].fid = "f1" /\ proc["p1"].status = "redirect"
    /\ Ids(Pages("f1")) = <<2>> /\ Ledger("f1") = <<2>>
    /\ proc["p2"].pc = "save_meta" /\ proc["p2"].op = "move"
    /\ proc["p2"].fid = "f2"
    /\ Ids(Pages("f2")) = <<2, 1>> /\ Ledger("f2") = <<1, 2>>

=============================================================================
